---- MODULE Spec2Model ----
(***************************************************************************)
(* A state-machine model of fabric-client-wrapper's multi-organization     *)
(* coordination layer:                                                     *)
(*   - ChannelSetupServer (the rendezvous barrier server), and             *)
(*   - MultiUserClient.joinChannel / installChaincode (the partitioned     *)
(*     fan-out).                                                           *)
(* Strings are sequences of one-character strings, so that split() is      *)
(* computed and not assumed.                                               *)
(***************************************************************************)
EXTENDS Integers, Sequences, FiniteSets, TLC

\* ------------------------------------------------------------------ bounds
MaxSockets == 2     \* sockets that ever connect
MaxCalls == 2       \* requestResponses calls
MaxNotify == 2      \* invocations of one callback
MaxPeers == 2       \* length of a peer array (channel peers, request targets)
MaxClients == 2     \* length of the userClients array
MaxReports == 3     \* 'data' payloads handled in two orders

\* ------------------------------------------------------- strings and arrays
SPLIT_CHAR == "-"

Str1(c) == <<c>>
Join3(a, b) == a \o <<SPLIT_CHAR>> \o b

\* The externalMspIds arrays a server is constructed with: none expected, one,
\* two, and an array that names one organization twice.
ExpectedLists ==
    { <<>>, <<Str1("A")>>, <<Str1("B"), Str1("A")>>, <<Str1("A"), Str1("A")>> }

\* The payloads a participant sends: single identifiers, delimiter-joined
\* identifiers, one of them never expected ("Z") or repeated, and an
\* undelimited run ("AB"), which names no organization.
Messages ==
    { Str1("A"), Str1("B"),
      Join3(Str1("A"), Str1("B")), Join3(Str1("A"), Str1("Z")),
      Join3(Str1("A"), Str1("A")), <<"A", "B">> }

ToSet(s) == {s[i] : i \in 1..Len(s)}

NoDup(s) == \A i, j \in 1..Len(s) : s[i] = s[j] => i = j

\* Array.prototype.includes
Includes(arr, x) == \E i \in 1..Len(arr) : arr[i] = x

\* Array.prototype.indexOf: 0-based index of the first occurrence, else -1.
IndexOf(arr, x) ==
    IF \E i \in 1..Len(arr) : arr[i] = x
    THEN (CHOOSE i \in 1..Len(arr) : arr[i] = x /\ \A j \in 1..(i - 1) : arr[j] # x) - 1
    ELSE -1

\* Mutant of Splice1: always removes the first element.
SpliceFirst(arr, start) == IF arr = <<>> THEN arr ELSE Tail(arr)

\* Array.prototype.splice(start, 1): a negative start counts from the end.
Splice1(arr, start) ==
    LET from == IF start < 0
                THEN (IF Len(arr) + start < 0 THEN 0 ELSE Len(arr) + start)
                ELSE (IF start > Len(arr) THEN Len(arr) ELSE start)
    IN  IF from >= Len(arr) THEN arr
        ELSE SubSeq(arr, 1, from) \o SubSeq(arr, from + 2, Len(arr))

\* String.prototype.split(SPLIT_CHAR): always at least one (maybe empty) piece.
RECURSIVE Split(_)
Split(str) ==
    IF \E i \in 1..Len(str) : str[i] = SPLIT_CHAR
    THEN LET i == CHOOSE k \in 1..Len(str) :
                    str[k] = SPLIT_CHAR /\ \A j \in 1..(k - 1) : str[j] # SPLIT_CHAR
         IN  <<SubSeq(str, 1, i - 1)>> \o Split(SubSeq(str, i + 1, Len(str)))
    ELSE <<str>>

\* _.uniq: the first occurrence of every value, in order.
RECURSIVE Uniq(_)
Uniq(arr) ==
    IF arr = <<>> THEN <<>>
    ELSE LET init == Uniq(SubSeq(arr, 1, Len(arr) - 1))
             x == arr[Len(arr)]
         IN  IF x \in ToSet(init) THEN init ELSE Append(init, x)

\* _.intersection(a, b): the unique values of a, in a's order, that b includes.
RECURSIVE Intersection(_, _)
Intersection(a, b) ==
    IF a = <<>> THEN <<>>
    ELSE LET init == Intersection(SubSeq(a, 1, Len(a) - 1), b)
             x == a[Len(a)]
         IN  IF x \in ToSet(b) /\ x \notin ToSet(init) THEN Append(init, x) ELSE init

\* Mutants of CollectResponses: without _.uniq and the dedupe of the
\* intersection, and without the intersection.
CollectNoUniq(expected, responses) ==
    SelectSeq(responses, LAMBDA x : x \in ToSet(expected))
CollectNoIntersection(expected, responses) == Uniq(responses)

\* lodash/fp: _.compose(_.intersection(externalMspIds), _.uniq)(responses)
\* (fp.intersection takes its data argument last).
CollectResponses(expected, responses) == Intersection(Uniq(responses), expected)

\* ----------------------------------------------------------------- state
VARIABLES
    \* ChannelSetupServer fields
    externalMspIds,     \* Array<string>
    clients,            \* Array<net.Socket>
    mspResponses,       \* Array<string>
    waitResponsesCbs,   \* Array<Function>, a callback is named by its call
    requesting,         \* boolean
    \* the promise and the timer of every requestResponses call
    promise,            \* "none" | "pending" | "resolved" | "rejected"
    timer,              \* "none" | "armed" | "cleared" | "fired"
    \* the environment
    sockState,          \* "new" | "open" | "ended"
    written,            \* what the last event wrote to every socket
    \* observation of the run
    last,               \* the last event
    cbCalls,            \* how often each callback has been invoked
    asked,              \* requestResponses called since the last completion
    \* MultiUserClient and one joinChannel / installChaincode call
    userClients,        \* Array<UserClient>, a client is named by its mspId
    channelPeers,       \* channel.getPeers()
    fanOp,              \* "none" | "joinChannel" | "installChaincode"
    argTargets,         \* the caller's targets array, or Undefined
    peers,              \* the local working copy
    nextClient,         \* position of userClients.forEach
    subCalls,           \* joinChannelCalls / installChaincodeCalls
    result,             \* the promise the call returned
    waitResult,         \* the promise of the aggregate wait()
    firstRejected,      \* the call whose promise / wait() rejected first
    rejectedWith,       \* the rejection the aggregate promises carry
    \* MultiUserClient: the constructor and one pass-through call
    mainArg,            \* the constructor's mainUserClient argument
    mainUserClient,     \* this.mainUserClient
    passArgs,           \* the caller's arguments
    delegated,          \* the calls issued to UserClients
    returned,           \* what the call returned
    \* ChannelSetupServer: the constructor
    ctorOpts,           \* the constructor's options
    server,             \* "none" | "listening" | "threw"
    \* two servers handling the same messages in two orders
    queueA, queueB,     \* the 'data' payloads in the order each server gets them
    handled,            \* how many of them each server has handled
    roundA, roundB      \* mspResponses and the completions of each server

serverVars == <<externalMspIds, clients, mspResponses, waitResponsesCbs, requesting,
                promise, timer, sockState, written, last, cbCalls,
                asked>>

fanVars == <<userClients, channelPeers, fanOp, argTargets, peers, nextClient,
             subCalls, result, waitResult, firstRejected, rejectedWith>>

passVars == <<mainArg, mainUserClient, passArgs, delegated, returned>>

ctorVars == <<ctorOpts, server>>

orderVars == <<queueA, queueB, handled, roundA, roundB>>

vars == <<serverVars, fanVars, passVars, ctorVars, orderVars>>

Sockets == 1..MaxSockets
Calls == 1..MaxCalls

\* The last event: its kind, the socket or call it belongs to and, for a
\* 'data' event, the payload, mspResponses as the handler found it, and
\* whether the handler took the completion branch.
Event(o, s, c) ==
    [op |-> o, sock |-> s, call |-> c, msg |-> <<>>, pre |-> <<>>, done |-> FALSE]
DataEvent(s, m, before, completed) ==
    [op |-> "data", sock |-> s, call |-> 0, msg |-> m, pre |-> before, done |-> completed]
NoEvent == Event("none", 0, 0)

NothingWritten == [s \in Sockets |-> <<>>]

\* Mutant of WriteAll: writes to the first socket only.
WriteFirst(arr, text) ==
    [s \in Sockets |-> IF arr # <<>> /\ s = arr[1] THEN <<text>> ELSE <<>>]

\* socket.write(text) on every socket of arr
WriteAll(arr, text) ==
    [s \in Sockets |-> IF s \in ToSet(arr) THEN <<text>> ELSE <<>>]

\* An optional array argument: absent, or an array.
Undefined == [present |-> FALSE, items |-> <<>>]
Defined(arr) == [present |-> TRUE, items |-> arr]

\* An optional UserClient argument: absent, or a client named by its mspId.
NoUser == [present |-> FALSE, mspId |-> ""]
User(id) == [present |-> TRUE, mspId |-> id]

\* An optional UserClient of a MultiUserClient: absent, or the client held at
\* a position of userClients (at = 0: a client that is not in userClients).
NoClient == [present |-> FALSE, at |-> 0]
Client(i) == [present |-> TRUE, at |-> i]

\* A call issued to a UserClient, and what a pass-through call returned: the
\* value a call to a UserClient returned is named by that call.
NoCall == [client |-> 0, op |-> "none", args |-> <<>>]
NothingReturned == [kind |-> "none", call |-> NoCall]

\* No call of a joinChannel / installChaincode has rejected.
NoRejection == [imm |-> 0, wt |-> 0]

\* One server's rounds: mspResponses, how many rounds it completed, and
\* whether it completed one before the last payload it is to handle.
NewRound == [mspResponses |-> <<>>, completions |-> 0, early |-> FALSE]

\* No pass-through call is under way.
PassIdle ==
    /\ mainArg = NoClient
    /\ mainUserClient = NoClient
    /\ passArgs = <<>>
    /\ delegated = <<>>
    /\ returned = NothingReturned

\* No payload is waiting to be handled.
OrderIdle ==
    /\ queueA = <<>>
    /\ queueB = <<>>
    /\ handled = 0
    /\ roundA = NewRound
    /\ roundB = NewRound

\* No MultiUserClient call is under way.
FanIdle ==
    /\ userClients = <<>>
    /\ channelPeers = <<>>
    /\ fanOp = "none"
    /\ argTargets = Undefined
    /\ peers = <<>>
    /\ nextClient = 1
    /\ subCalls = <<>>
    /\ result = "none"
    /\ waitResult = "none"
    /\ firstRejected = NoRejection
    /\ rejectedWith = NoRejection

\* ------------------------------------------------------------- constructor
\* The state after `new ChannelSetupServer({ externalMspIds })`.
Init ==
    /\ externalMspIds \in ExpectedLists
    /\ clients = <<>>
    /\ mspResponses = <<>>
    /\ waitResponsesCbs = <<>>
    /\ requesting = FALSE
    /\ promise = [c \in Calls |-> "none"]
    /\ timer = [c \in Calls |-> "none"]
    /\ sockState = [s \in Sockets |-> "new"]
    /\ written = NothingWritten
    /\ last = NoEvent
    /\ cbCalls = [c \in Calls |-> 0]
    /\ asked = FALSE
    /\ ctorOpts = [externalMspIds |-> Defined(externalMspIds), userClient |-> NoUser,
                   channel |-> Undefined]
    /\ server = "listening"
    /\ FanIdle
    /\ PassIdle
    /\ OrderIdle

\* ------------------------------------------------------------------ events
\* net.createServer(socket => { ... }): a new socket connects.
Connect(s) ==
    /\ sockState[s] = "new"
    /\ \A t \in Sockets : t < s => sockState[t] # "new"
    /\ clients' = Append(clients, s)
    /\ written' = [NothingWritten EXCEPT ![s] = IF requesting THEN <<"request">> ELSE <<>>]
    /\ sockState' = [sockState EXCEPT ![s] = "open"]
    /\ last' = Event("connect", s, 0)
    /\ UNCHANGED <<externalMspIds, mspResponses, waitResponsesCbs, requesting, promise,
                   timer, cbCalls, asked, fanVars, passVars, ctorVars, orderVars>>

\* Mutant of ClearTimeout: the timer is left armed.
ClearTimeoutNoop(t) == t

\* cb of requestResponses: clearTimeout(handle); resolve()
ClearTimeout(t) == IF t = "armed" THEN "cleared" ELSE t
Resolve(p) == IF p = "pending" THEN "resolved" ELSE p
Reject(p) == IF p = "pending" THEN "rejected" ELSE p

\* Mutant of RoundComplete: an empty expected list is never complete.
RoundCompleteNonEmpty(responses, expected) ==
    Len(expected) > 0 /\ Len(responses) = Len(expected)

\* Mutant of RoundComplete: complete one identifier early.
RoundCompleteEarly(responses, expected) == Len(responses) + 1 >= Len(expected)

\* the length test of the 'data' handler
RoundComplete(responses, expected) == Len(responses) = Len(expected)

\* socket.on('data', data => { ... }); a completing event is taken only while
\* no registered callback has been invoked MaxNotify times.
OnData(s, msg) ==
    /\ sockState[s] = "open"
    /\ LET collected == CollectResponses(externalMspIds, mspResponses \o Split(msg))
       IN  IF RoundComplete(collected, externalMspIds)
           THEN /\ \A c \in ToSet(waitResponsesCbs) : cbCalls[c] < MaxNotify
                /\ promise' = [c \in Calls |->
                       IF c \in ToSet(waitResponsesCbs) THEN Resolve(promise[c]) ELSE promise[c]]
                /\ timer' = [c \in Calls |->
                       IF c \in ToSet(waitResponsesCbs) THEN ClearTimeout(timer[c]) ELSE timer[c]]
                /\ cbCalls' = [c \in Calls |->
                       IF c \in ToSet(waitResponsesCbs) THEN cbCalls[c] + 1 ELSE cbCalls[c]]
                /\ mspResponses' = <<>>
                /\ requesting' = FALSE
                /\ asked' = FALSE
           ELSE /\ mspResponses' = collected
                /\ UNCHANGED <<promise, timer, cbCalls, requesting, asked>>
    /\ written' = NothingWritten
    /\ last' = DataEvent(s, msg, mspResponses,
                         RoundComplete(CollectResponses(externalMspIds,
                                                        mspResponses \o Split(msg)),
                                       externalMspIds))
    /\ UNCHANGED <<externalMspIds, clients, waitResponsesCbs, sockState, fanVars,
                   passVars, ctorVars, orderVars>>

\* socket.on('end', () => { ... })
OnEnd(s) ==
    /\ sockState[s] = "open"
    /\ clients' = Splice1(clients, IndexOf(clients, s))
    /\ sockState' = [sockState EXCEPT ![s] = "ended"]
    /\ written' = NothingWritten
    /\ last' = Event("end", s, 0)
    /\ UNCHANGED <<externalMspIds, mspResponses, waitResponsesCbs, requesting, promise,
                   timer, cbCalls, asked, fanVars, passVars, ctorVars, orderVars>>

\* Mutant of RequestResponses: the call starts the round afresh.
RequestResponsesResets(c) ==
    /\ promise[c] = "none"
    /\ \A d \in Calls : d < c => promise[d] # "none"
    /\ timer' = [timer EXCEPT ![c] = "armed"]
    /\ promise' = [promise EXCEPT ![c] = "pending"]
    /\ waitResponsesCbs' = Append(waitResponsesCbs, c)
    /\ mspResponses' = <<>>
    /\ written' = WriteAll(clients, "request")
    /\ asked' = TRUE
    /\ last' = Event("request", 0, c)
    /\ UNCHANGED <<externalMspIds, clients, requesting, sockState, cbCalls, fanVars,
                   passVars, ctorVars, orderVars>>

\* requestResponses(timeout): the promise executor
RequestResponses(c) ==
    /\ promise[c] = "none"
    /\ \A d \in Calls : d < c => promise[d] # "none"
    /\ timer' = [timer EXCEPT ![c] = "armed"]
    /\ promise' = [promise EXCEPT ![c] = "pending"]
    /\ waitResponsesCbs' = Append(waitResponsesCbs, c)
    /\ written' = WriteAll(clients, "request")
    /\ asked' = TRUE
    /\ last' = Event("request", 0, c)
    /\ UNCHANGED <<externalMspIds, clients, mspResponses, requesting, sockState,
                   cbCalls, fanVars, passVars, ctorVars, orderVars>>

\* Mutant of Timeout: the timer of one call fails every pending call.
TimeoutAll(c) ==
    /\ timer[c] = "armed"
    /\ timer' = [d \in Calls |-> IF timer[d] = "armed" THEN "fired" ELSE timer[d]]
    /\ promise' = [d \in Calls |-> Reject(promise[d])]
    /\ written' = NothingWritten
    /\ last' = Event("timeout", 0, c)
    /\ UNCHANGED <<externalMspIds, clients, mspResponses, waitResponsesCbs, requesting,
                   sockState, cbCalls, asked, fanVars, passVars, ctorVars, orderVars>>

\* Mutant of Timeout: the timer also empties mspResponses.
TimeoutResets(c) ==
    /\ timer[c] = "armed"
    /\ timer' = [timer EXCEPT ![c] = "fired"]
    /\ promise' = [promise EXCEPT ![c] = Reject(promise[c])]
    /\ mspResponses' = <<>>
    /\ written' = NothingWritten
    /\ last' = Event("timeout", 0, c)
    /\ UNCHANGED <<externalMspIds, clients, waitResponsesCbs, requesting, sockState,
                   cbCalls, asked, fanVars, passVars, ctorVars, orderVars>>

\* the setTimeout callback of one call: reject(new Error(...))
Timeout(c) ==
    /\ timer[c] = "armed"
    /\ timer' = [timer EXCEPT ![c] = "fired"]
    /\ promise' = [promise EXCEPT ![c] = Reject(promise[c])]
    /\ written' = NothingWritten
    /\ last' = Event("timeout", 0, c)
    /\ UNCHANGED <<externalMspIds, clients, mspResponses, waitResponsesCbs, requesting,
                   sockState, cbCalls, asked, fanVars, passVars, ctorVars, orderVars>>

\* sendCompleted()
SendCompleted ==
    /\ written' = WriteAll(clients, "complete")
    /\ last' = Event("complete", 0, 0)
    /\ UNCHANGED <<externalMspIds, clients, mspResponses, waitResponsesCbs, requesting,
                   promise, timer, sockState, cbCalls, asked, fanVars, passVars,
                   ctorVars, orderVars>>

Next ==
    \/ \E s \in Sockets : Connect(s)
    \/ \E s \in Sockets, msg \in Messages : OnData(s, msg)
    \/ \E s \in Sockets : OnEnd(s)
    \/ \E c \in Calls : RequestResponses(c)
    \/ \E c \in Calls : Timeout(c)
    \/ SendCompleted

Spec == Init /\ [][Next]_vars

\* Timers fire: a timer that stays armed is eventually run by the event loop.
FairSpec == Spec /\ \A c \in Calls : WF_vars(Timeout(c))

\* ================================================== ChannelSetupServer claims
Expected == ToSet(externalMspIds)
Reported == ToSet(mspResponses)

\* the identifiers of the last 'data' payload
Tokens == ToSet(Split(last.msg))

\* what the last 'data' event found reported, joined with what it delivered,
\* as far as it is expected
Covered == (ToSet(last.pre) \cup Tokens) \cap Expected

IsExpectedSet == externalMspIds # <<>> /\ NoDup(externalMspIds)

Pending == {c \in Calls : promise[c] = "pending"}

\* C1: with a non-empty expected set, a 'data' event completes the round
\* exactly when what was reported before it, joined with what it delivers,
\* covers the expected set, and no other event completes a round; right after
\* a completing event no call is pending, mspResponses is empty and requesting
\* is false, and after any other 'data' event mspResponses holds exactly the
\* expected identifiers reported so far, which do not cover the expected set.
C1_RoundCompletion ==
    /\ last.done => last.op = "data"
    /\ (last.op = "data" /\ IsExpectedSet) =>
          /\ last.done <=> (Covered = Expected)
          /\ last.done => (Pending = {} /\ mspResponses = <<>> /\ requesting = FALSE)
          /\ ~last.done => (Reported = Covered /\ Reported # Expected)
    /\ IsExpectedSet => Reported # Expected

C1_Witness ==
    /\ externalMspIds = <<Str1("B"), Str1("A")>>
    /\ last.op = "data" /\ last.msg = Str1("B") /\ last.pre = <<Str1("A")>> /\ last.done
    /\ promise[1] = "resolved" /\ cbCalls[1] = 1
    /\ mspResponses = <<>>

\* C2: a participant that connects while a round is in progress (a
\* requestResponses call was made and no round has completed since) is sent
\* "request" by the connection handler.
C2_LateJoinerRequested ==
    (last.op = "connect" /\ asked) => Includes(written[last.sock], "request")

\* C3: the callback of a requestResponses call is invoked at most once over
\* all rounds: a round's completion invokes no callback that an earlier
\* completion has invoked already.
C3_NotifiedOnce == \A c \in Calls : cbCalls[c] <= 1

\* C4: a 'data' event that delivers only identifiers already reported in this
\* round leaves mspResponses as it was and completes no round.
C4_IdempotentReport ==
    (last.op = "data" /\ Tokens \subseteq ToSet(last.pre)) =>
        (mspResponses = last.pre /\ ~last.done)

C4_Witness ==
    /\ externalMspIds = <<Str1("B"), Str1("A")>>
    /\ last.op = "data" /\ last.msg = Str1("A") /\ last.pre = <<Str1("A")>>
    /\ mspResponses = <<Str1("A")>>
    /\ sockState[2] = "open"

\* C5: mspResponses only ever holds expected identifiers, a 'data' event adds
\* to it nothing but the expected identifiers of its payload, and a round is
\* completed only by an event at which every expected identifier is reported.
C5_UnexpectedIgnored ==
    /\ Reported \subseteq Expected
    /\ last.op = "data" => Reported \subseteq (ToSet(last.pre) \cup (Tokens \cap Expected))
    /\ last.done => Expected \subseteq (ToSet(last.pre) \cup Tokens)

C5_Witness ==
    /\ externalMspIds = <<Str1("B"), Str1("A")>>
    /\ last.op = "data" /\ last.msg = Join3(Str1("A"), Str1("Z")) /\ last.pre = <<>>
    /\ mspResponses = <<Str1("A")>>
    /\ ~last.done

\* C6: a requestResponses call settles once and for all; its timer fires
\* only while no round has completed since the call, and then the call fails;
\* a call is resolved exactly when a round completed before its timer fired,
\* and its timer is then cleared; and every call settles eventually.
C6_Outcome ==
    /\ [](\A c \in Calls :
            /\ promise[c] = "none" <=> timer[c] = "none"
            /\ promise[c] = "pending" <=> timer[c] = "armed"
            /\ promise[c] = "resolved" <=> timer[c] = "cleared"
            /\ promise[c] = "rejected" <=> timer[c] = "fired"
            /\ promise[c] = "pending" => cbCalls[c] = 0
            /\ promise[c] = "resolved" => cbCalls[c] >= 1)
    /\ [][\A c \in Calls :
            /\ promise[c] \in {"resolved", "rejected"} =>
                   (promise'[c] = promise[c] /\ timer'[c] = timer[c])
            /\ (timer[c] = "armed" /\ timer'[c] = "fired") =>
                   (cbCalls[c] = 0 /\ promise'[c] = "rejected")
            /\ (promise[c] = "pending" /\ last'.op = "data" /\ last'.done) =>
                   promise'[c] = "resolved"]_vars
    /\ \A c \in Calls :
           (promise[c] = "pending") ~> (promise[c] \in {"resolved", "rejected"})

C6_Witness ==
    /\ externalMspIds = <<Str1("B"), Str1("A")>>
    /\ promise[1] = "rejected" /\ timer[1] = "fired"
    /\ promise[2] = "resolved" /\ timer[2] = "cleared"
    /\ cbCalls[1] = 1

\* C7: the timer of one call fails that call alone: every other call's
\* promise and timer, mspResponses and the callback list stay as they are; a
\* new call arms its own timer and leaves the other calls and mspResponses
\* alone; and one completing 'data' event resolves every call then pending.
C7_OverlappingCalls ==
    [][/\ last'.op = "timeout" =>
            /\ promise[last'.call] = "pending" /\ promise'[last'.call] = "rejected"
            /\ \A d \in Calls \ {last'.call} :
                   promise'[d] = promise[d] /\ timer'[d] = timer[d]
            /\ mspResponses' = mspResponses
            /\ waitResponsesCbs' = waitResponsesCbs
            /\ cbCalls' = cbCalls
       /\ last'.op = "request" =>
            /\ timer'[last'.call] = "armed"
            /\ \A d \in Calls \ {last'.call} :
                   promise'[d] = promise[d] /\ timer'[d] = timer[d]
            /\ mspResponses' = mspResponses
       /\ (last'.op = "data" /\ last'.done) =>
            \A d \in Calls : promise[d] = "pending" =>
                (promise'[d] = "resolved" /\ timer'[d] = "cleared")]_vars

C7_Witness ==
    /\ last.op = "timeout" /\ last.call = 1
    /\ promise[1] = "rejected" /\ promise[2] = "pending"
    /\ timer[2] = "armed"
    /\ mspResponses = <<Str1("A")>>

\* C8: an 'end' event removes its socket, and nothing else, from clients and
\* leaves mspResponses, the callback list, requesting and every call as they
\* are; and whoever is connected, a 'data' event at which every expected
\* identifier is reported completes the round.
C8_DisconnectNeutral ==
    /\ [][last'.op = "end" =>
            /\ Includes(clients, last'.sock)
            /\ clients' = SelectSeq(clients, LAMBDA x : x # last'.sock)
            /\ mspResponses' = mspResponses
            /\ waitResponsesCbs' = waitResponsesCbs
            /\ requesting' = requesting
            /\ promise' = promise /\ timer' = timer
            /\ cbCalls' = cbCalls]_vars
    /\ []((last.op = "data" /\ IsExpectedSet /\ Covered = Expected) => last.done)

\* Only socket 1 has ever connected: it reported "A" and has disconnected.
C8_Witness ==
    /\ externalMspIds = <<Str1("B"), Str1("A")>>
    /\ last.op = "end" /\ last.sock = 1
    /\ sockState[1] = "ended" /\ sockState[2] = "new"
    /\ mspResponses = <<Str1("A")>>
    /\ clients = <<>>

\* C9: sendCompleted writes "complete" once to every socket that has
\* connected and not ended, writes nothing to any other, and leaves clients,
\* mspResponses, the callback list, requesting and every call as they are.
C9_SendCompleted ==
    [][last'.op = "complete" =>
          /\ \A s \in Sockets :
                 written'[s] = IF sockState[s] = "open" THEN <<"complete">> ELSE <<>>
          /\ clients' = clients
          /\ mspResponses' = mspResponses
          /\ waitResponsesCbs' = waitResponsesCbs
          /\ requesting' = requesting
          /\ promise' = promise /\ timer' = timer
          /\ cbCalls' = cbCalls]_vars

C9_Witness ==
    /\ last.op = "complete"
    /\ sockState[1] = "ended" /\ sockState[2] = "open"
    /\ written[1] = <<>> /\ written[2] = <<"complete">>
    /\ promise[1] = "pending"

\* ======================================================= MultiUserClient
\* The peers of the network: the mspIds that may administer each one
\* (peer.getAdminMspIds()), the mspId each belongs to (peer.getMspId()), and
\* whether isFcwPeer(peer) holds.  Peer 4 is a plain fabric-client Peer: it
\* has neither an mspId nor admin mspIds.
Peers == 1..4

PeerAdminMspIds(p) ==
    CASE p = 1 -> <<"org1">>
      [] p = 2 -> <<"org2">>
      [] p = 3 -> <<"org2", "org1">>
      [] p = 4 -> <<>>

PeerMspId(p) ==
    CASE p = 1 -> "org1"
      [] p = 2 -> "org2"
      [] p = 3 -> "org2"

IsFcwPeer(p) == p # 4

ClientMspIds == {"org1", "org2"}

RECURSIVE SeqsUpTo(_, _)
SeqsUpTo(S, n) ==
    IF n = 0 THEN {<<>>}
    ELSE LET shorter == SeqsUpTo(S, n - 1)
         IN  shorter \cup {Append(s, x) : s \in shorter, x \in S}

PeerLists == SeqsUpTo(Peers, MaxPeers)
ClientLists == SeqsUpTo(ClientMspIds, MaxClients)

\* joinChannelOpts.targets: absent, or the first k peers of the channel.
OptTargetChoices(chPeers) ==
    {Undefined} \cup {Defined(SubSeq(chPeers, 1, k)) : k \in 0..Len(chPeers)}

\* Mutant of Owns: only the first admin mspId of a peer counts.
OwnsFirst(mspId, p) == PeerAdminMspIds(p) # <<>> /\ PeerAdminMspIds(p)[1] = mspId

\* peer => peer.getAdminMspIds().includes(userClient.getOrganizationConfig().mspId)
Owns(mspId, p) == Includes(PeerAdminMspIds(p), mspId)

\* Mutant of LeftAfterRemove: the claimed peers stay in the working copy.
LeftUntouched(arr, mspId) == arr

\* Mutant of Removed: only the first matching peer is handed over.
RemovedFirst(arr, mspId) ==
    LET all == SelectSeq(arr, LAMBDA p : Owns(mspId, p))
    IN  IF all = <<>> THEN <<>> ELSE <<all[1]>>

\* lodash remove(array, predicate): the removed elements, and what is left
\* in the (mutated) array, both in the array's order.
Removed(arr, mspId) == SelectSeq(arr, LAMBDA p : Owns(mspId, p))
LeftAfterRemove(arr, mspId) == SelectSeq(arr, LAMBDA p : ~Owns(mspId, p))

\* _.clone(array.filter(peer => isFcwPeer(peer))): a new array
FcwPeers(arr) == SelectSeq(arr, IsFcwPeer)

\* userClients[0]
FirstUserClient(list) == IF Len(list) > 0 THEN Client(1) ELSE NoClient

\* Mutant of MainUserClient: the mainUserClient argument is ignored.
MainUserClientFirst(list, arg) == FirstUserClient(list)

\* constructor(userClients, mainUserClient): the value of this.mainUserClient
MainUserClient(list, arg) == IF arg.present THEN arg ELSE FirstUserClient(list)

\* The mainUserClient argument: absent, a client that is not in userClients,
\* or one of userClients.
MainArgChoices(list) == {NoClient} \cup {Client(i) : i \in 0..Len(list)}

\* No ChannelSetupServer is constructed.
NoOptions == [externalMspIds |-> Undefined, userClient |-> NoUser, channel |-> Undefined]

\* The state after `new MultiUserClient(userClients, mainUserClient)`, no
\* server running.
ServerIdle ==
    /\ externalMspIds = <<>>
    /\ clients = <<>>
    /\ mspResponses = <<>>
    /\ waitResponsesCbs = <<>>
    /\ requesting = FALSE
    /\ promise = [c \in Calls |-> "none"]
    /\ timer = [c \in Calls |-> "none"]
    /\ sockState = [s \in Sockets |-> "new"]
    /\ written = NothingWritten
    /\ last = NoEvent
    /\ cbCalls = [c \in Calls |-> 0]
    /\ asked = FALSE
    /\ ctorOpts = NoOptions
    /\ server = "none"
    /\ OrderIdle

FanInit ==
    /\ ServerIdle
    /\ userClients \in ClientLists
    /\ mainArg \in MainArgChoices(userClients)
    /\ mainUserClient = MainUserClient(userClients, mainArg)
    /\ passArgs = <<>>
    /\ delegated = <<>>
    /\ returned = NothingReturned
    /\ firstRejected = NoRejection
    /\ rejectedWith = NoRejection
    /\ channelPeers = <<>>
    /\ fanOp = "none"
    /\ argTargets = Undefined
    /\ peers = <<>>
    /\ nextClient = 1
    /\ subCalls = <<>>
    /\ result = "none"
    /\ waitResult = "none"

\* joinChannel(channel, joinChannelOpts), up to the forEach
JoinChannel(chPeers, optTargets) ==
    /\ fanOp = "none"
    /\ fanOp' = "joinChannel"
    /\ channelPeers' = chPeers
    /\ argTargets' = optTargets
    /\ peers' = FcwPeers(chPeers)
    /\ result' = "running"
    /\ UNCHANGED <<firstRejected, rejectedWith, userClients, nextClient, subCalls,
                   waitResult, serverVars, passVars, ctorVars, orderVars>>

\* installChaincode(chaincodeInstallRequest, timeout), up to the forEach
InstallChaincode(targets) ==
    /\ fanOp = "none"
    /\ fanOp' = "installChaincode"
    /\ argTargets' = Defined(targets)
    /\ peers' = FcwPeers(targets)
    /\ result' = "running"
    /\ UNCHANGED <<firstRejected, rejectedWith, userClients, channelPeers, nextClient,
                   subCalls, waitResult, serverVars, passVars, ctorVars, orderVars>>

\* The fields of the caller's joinChannelOpts / chaincodeInstallRequest other
\* than targets.
CallerRest ==
    IF fanOp = "joinChannel" THEN "genesisBlock, timeout"
    ELSE "chaincodeId, chaincodePath, chaincodeVersion"

\* Mutant of InputAfterRemove: remove acts on the caller's array itself.
InputShared(arr, mspId) == SelectSeq(arr, LAMBDA p : ~Owns(mspId, p))

\* The array the working copy was made from, after remove(peers, ...): filter
\* and _.clone gave peers its own array, so the caller's array keeps its
\* elements.
InputAfterRemove(arr, mspId) == arr

\* Mutant of SubCall: the call's wait() is invoked as soon as it is issued.
SubCallEager(client, ownedPeers) ==
    [client |-> client, targets |-> ownedPeers, rest |-> CallerRest,
     imm |-> "pending", wt |-> "pending"]

\* The call one iteration issues: userClient.joinChannel(channel, { ...opts,
\* targets: ownedPeers }) or userClient.installChaincode({ ...request,
\* targets: ownedPeers }, timeout).
SubCall(client, ownedPeers) ==
    [client |-> client, targets |-> ownedPeers, rest |-> CallerRest,
     imm |-> "pending", wt |-> "none"]

\* one iteration of this.userClients.forEach(userClient => { ... })
ClaimOwned ==
    /\ result = "running"
    /\ nextClient <= Len(userClients)
    /\ LET mspId == userClients[nextClient]
           ownedPeers == Removed(peers, mspId)
       IN  /\ peers' = LeftAfterRemove(peers, mspId)
           /\ channelPeers' = IF fanOp = "joinChannel"
                              THEN InputAfterRemove(channelPeers, mspId)
                              ELSE channelPeers
           /\ argTargets' = IF fanOp = "installChaincode"
                            THEN Defined(InputAfterRemove(argTargets.items, mspId))
                            ELSE argTargets
           /\ subCalls' = IF Len(ownedPeers) > 0
                          THEN Append(subCalls, SubCall(nextClient, ownedPeers))
                          ELSE subCalls
    /\ nextClient' = nextClient + 1
    /\ UNCHANGED <<firstRejected, rejectedWith, userClients, fanOp, result, waitResult,
                   serverVars, passVars, ctorVars, orderVars>>

\* Mutant of AwaitAll: the caller awaits the calls issued so far.
AwaitEarly ==
    /\ result = "running"
    /\ subCalls # <<>>
    /\ result' = "awaiting"
    /\ UNCHANGED <<firstRejected, rejectedWith, userClients, channelPeers, fanOp,
                   argTargets, peers, nextClient, subCalls, waitResult, serverVars,
                   passVars, ctorVars, orderVars>>

\* await Promise.all(calls): the caller is suspended on every call issued
AwaitAll ==
    /\ result = "running"
    /\ nextClient > Len(userClients)
    /\ result' = "awaiting"
    /\ UNCHANGED <<firstRejected, rejectedWith, userClients, channelPeers, fanOp,
                   argTargets, peers, nextClient, subCalls, waitResult, serverVars,
                   passVars, ctorVars, orderVars>>

\* Mutant of SubSettle: a rejected call cancels what is still pending.
SubSettleCancelled(k, outcome) ==
    /\ result \in {"awaiting", "returned"}
    /\ k \in 1..Len(subCalls)
    /\ subCalls[k].imm = "pending"
    /\ subCalls' = [subCalls EXCEPT ![k].imm = outcome]
    /\ firstRejected' = IF outcome = "failed" /\ firstRejected.imm = 0
                        THEN [firstRejected EXCEPT !.imm = k]
                        ELSE firstRejected
    /\ UNCHANGED <<rejectedWith, userClients, channelPeers, fanOp, argTargets, peers,
                   nextClient, result, waitResult, serverVars, passVars, ctorVars,
                   orderVars>>

\* one UserClient's promise settles
SubSettle(k, outcome) ==
    /\ result \in {"awaiting", "returned", "rejected"}
    /\ k \in 1..Len(subCalls)
    /\ subCalls[k].imm = "pending"
    /\ subCalls' = [subCalls EXCEPT ![k].imm = outcome]
    /\ firstRejected' = IF outcome = "failed" /\ firstRejected.imm = 0
                        THEN [firstRejected EXCEPT !.imm = k]
                        ELSE firstRejected
    /\ UNCHANGED <<rejectedWith, userClients, channelPeers, fanOp, argTargets, peers,
                   nextClient, result, waitResult, serverVars, passVars, ctorVars,
                   orderVars>>

\* Mutant of Return: the call returns once every promise has settled.
ReturnSettled ==
    /\ result = "awaiting"
    /\ \A k \in 1..Len(subCalls) : subCalls[k].imm # "pending"
    /\ result' = "returned"
    /\ UNCHANGED <<firstRejected, rejectedWith, userClients, channelPeers, fanOp,
                   argTargets, peers, nextClient, subCalls, waitResult, serverVars,
                   passVars, ctorVars, orderVars>>

\* Promise.all resolves and the call returns { data, wait }
Return ==
    /\ result = "awaiting"
    /\ \A k \in 1..Len(subCalls) : subCalls[k].imm = "ok"
    /\ result' = "returned"
    /\ UNCHANGED <<firstRejected, rejectedWith, userClients, channelPeers, fanOp,
                   argTargets, peers, nextClient, subCalls, waitResult, serverVars,
                   passVars, ctorVars, orderVars>>

\* Promise.all rejects as soon as one of its promises rejects, with that
\* promise's rejection
FailFast ==
    /\ result = "awaiting"
    /\ \E k \in 1..Len(subCalls) : subCalls[k].imm = "failed"
    /\ result' = "rejected"
    /\ rejectedWith' = [rejectedWith EXCEPT !.imm = firstRejected.imm]
    /\ UNCHANGED <<firstRejected, userClients, channelPeers, fanOp, argTargets, peers,
                   nextClient, subCalls, waitResult, serverVars, passVars, ctorVars,
                   orderVars>>

\* wait: () => Promise.all(joinChannelResponses.map(r => r.wait()))
Wait ==
    /\ fanOp = "joinChannel"
    /\ result = "returned"
    /\ waitResult = "none"
    /\ subCalls' = [k \in 1..Len(subCalls) |-> [subCalls[k] EXCEPT !.wt = "pending"]]
    /\ waitResult' = "pending"
    /\ UNCHANGED <<firstRejected, rejectedWith, userClients, channelPeers, fanOp,
                   argTargets, peers, nextClient, result, serverVars, passVars,
                   ctorVars, orderVars>>

\* one UserClient's wait() settles
SubWaitSettle(k, outcome) ==
    /\ k \in 1..Len(subCalls)
    /\ subCalls[k].wt = "pending"
    /\ subCalls' = [subCalls EXCEPT ![k].wt = outcome]
    /\ firstRejected' = IF outcome = "failed" /\ firstRejected.wt = 0
                        THEN [firstRejected EXCEPT !.wt = k]
                        ELSE firstRejected
    /\ UNCHANGED <<rejectedWith, userClients, channelPeers, fanOp, argTargets, peers,
                   nextClient, result, waitResult, serverVars, passVars, ctorVars,
                   orderVars>>

\* the Promise.all of wait resolves
WaitReturn ==
    /\ waitResult = "pending"
    /\ \A k \in 1..Len(subCalls) : subCalls[k].wt = "ok"
    /\ waitResult' = "resolved"
    /\ UNCHANGED <<firstRejected, rejectedWith, userClients, channelPeers, fanOp,
                   argTargets, peers, nextClient, subCalls, result, serverVars,
                   passVars, ctorVars, orderVars>>

\* the Promise.all of wait rejects with the first rejection
WaitFail ==
    /\ waitResult = "pending"
    /\ \E k \in 1..Len(subCalls) : subCalls[k].wt = "failed"
    /\ waitResult' = "rejected"
    /\ rejectedWith' = [rejectedWith EXCEPT !.wt = firstRejected.wt]
    /\ UNCHANGED <<firstRejected, userClients, channelPeers, fanOp, argTargets, peers,
                   nextClient, subCalls, result, serverVars, passVars, ctorVars,
                   orderVars>>

\* ------------------------------------------------------ pass-through calls
\* The methods that hand the call to this.mainUserClient.
PassThroughOps ==
    {"newTransactionID", "bindChannel", "getChannelGenesisBlock", "initializeChannel",
     "createChannel", "updateChannel", "instantiateChaincode", "upgradeChaincode",
     "sendTransactionProposal", "sendTransaction", "queryChaincode", "invokeChaincode"}

\* the number of parameters of a method, and how many of them are required
Arity(op) ==
    CASE op = "newTransactionID" -> 0
      [] op \in {"bindChannel", "getChannelGenesisBlock", "initializeChannel"} -> 1
      [] op \in {"createChannel", "updateChannel"} -> 2
      [] op \in {"instantiateChaincode", "upgradeChaincode", "sendTransactionProposal",
                 "sendTransaction", "queryChaincode"} -> 4
      [] op = "invokeChaincode" -> 5

Required(op) ==
    CASE op \in {"instantiateChaincode", "upgradeChaincode", "sendTransactionProposal",
                 "queryChaincode", "invokeChaincode"} -> 2
      [] op = "sendTransaction" -> 3
      [] OTHER -> Arity(op)

\* The value a caller gives for the i-th parameter; an argument left out is
\* "undefined".
ArgValue(i) == <<"arg1", "arg2", "arg3", "arg4", "arg5">>[i]

CallerArgs(op) ==
    {args \in [1..Arity(op) -> {ArgValue(i) : i \in 1..Arity(op)} \cup {"undefined"}] :
        \A i \in 1..Arity(op) :
            \/ args[i] = ArgValue(i)
            \/ i > Required(op) /\ args[i] = "undefined"}

\* the default value of a parameter: `waitTransactionPeersTimeout: number =
\* 60000`, `opts?: TransactionProposalOpts = {}`, `timeout: number = 60000`
ParamDefault(op, i) ==
    CASE op \in {"instantiateChaincode", "upgradeChaincode"} /\ i = 4 -> "60000"
      [] op = "sendTransactionProposal" /\ i = 4 -> "{}"
      [] op = "sendTransaction" /\ i = 4 -> "60000"
      [] OTHER -> "undefined"

\* the arguments of the call to this.mainUserClient: every parameter, in
\* order, an undefined one replaced by its default
Forwarded(op, args) ==
    [i \in 1..Arity(op) |-> IF args[i] = "undefined" THEN ParamDefault(op, i) ELSE args[i]]

\* return this.mainUserClient.op(...): without a mainUserClient the call
\* throws (the async methods reject).
PassThrough(op, args) ==
    /\ fanOp = "none"
    /\ fanOp' = op
    /\ passArgs' = args
    /\ IF mainUserClient.present
       THEN LET call == [client |-> mainUserClient.at, op |-> op,
                         args |-> Forwarded(op, args)]
            IN  /\ delegated' = <<call>>
                /\ returned' = [kind |-> "value", call |-> call]
       ELSE /\ delegated' = <<>>
            /\ returned' = [kind |-> "threw", call |-> NoCall]
    /\ UNCHANGED <<firstRejected, rejectedWith, userClients, channelPeers, argTargets,
                   peers, nextClient, subCalls, result, waitResult, mainArg,
                   mainUserClient, serverVars, ctorVars, orderVars>>

FanNext ==
    \/ \E op \in PassThroughOps : \E args \in CallerArgs(op) : PassThrough(op, args)
    \/ \E chPeers \in PeerLists : \E optTargets \in OptTargetChoices(chPeers) :
           JoinChannel(chPeers, optTargets)
    \/ \E targets \in PeerLists : InstallChaincode(targets)
    \/ ClaimOwned
    \/ AwaitAll
    \/ \E k \in 1..MaxClients, outcome \in {"ok", "failed"} : SubSettle(k, outcome)
    \/ Return
    \/ FailFast
    \/ Wait
    \/ \E k \in 1..MaxClients, outcome \in {"ok", "failed"} : SubWaitSettle(k, outcome)
    \/ WaitReturn
    \/ WaitFail

FanSpec == FanInit /\ [][FanNext]_vars

\* ==================================== ChannelSetupServer: the constructor
\* An mspId as the characters of the string, as the 'data' handler sees it.
Chars(id) ==
    CASE id = "org1" -> <<"o", "r", "g", "1">>
      [] id = "org2" -> <<"o", "r", "g", "2">>
      [] id = "org3" -> <<"o", "r", "g", "3">>

\* The options of the constructor: externalMspIds absent or an array,
\* userClient absent or a client of one of three organizations, channel absent
\* or a channel and its peers.
UserMspIds == {"org1", "org2", "org3"}

ChannelLists == SeqsUpTo({p \in Peers : IsFcwPeer(p)}, MaxPeers)

CtorOptions ==
    [externalMspIds : {Undefined} \cup {Defined(list) : list \in ExpectedLists},
     userClient : {NoUser} \cup {User(id) : id \in UserMspIds},
     channel : {Undefined} \cup {Defined(chPeers) : chPeers \in ChannelLists}]

\* Mutant of CtorBranch: a client and a channel win over externalMspIds.
CtorBranchDerivedFirst(opts) ==
    IF opts.userClient.present /\ opts.channel.present THEN "derived"
    ELSE IF opts.externalMspIds.present THEN "explicit"
    ELSE "throw"

\* if (externalMspIds) ... else if (userClient && channel) ... else throw
CtorBranch(opts) ==
    IF opts.externalMspIds.present THEN "explicit"
    ELSE IF opts.userClient.present /\ opts.channel.present THEN "derived"
    ELSE "throw"

\* channel.getPeers().filter(peer => !peer.getAdminMspIds().includes(userMspId))
ExternalPeers(userMspId, chPeers) ==
    SelectSeq(chPeers, LAMBDA p : ~Includes(PeerAdminMspIds(p), userMspId))

\* externalPeers.map(peer => peer.getMspId())
MspIdsOf(arr) == [i \in 1..Len(arr) |-> Chars(PeerMspId(arr[i]))]

\* Mutant of DerivedMspIds: duplicates are kept.
DerivedNoUniq(userMspId, chPeers) == MspIdsOf(ExternalPeers(userMspId, chPeers))

\* _.uniq(externalPeers.map(peer => peer.getMspId()))
DerivedMspIds(userMspId, chPeers) == Uniq(MspIdsOf(ExternalPeers(userMspId, chPeers)))

\* Before `new ChannelSetupServer(options)`: no server, no fields.
CtorInit ==
    /\ ctorOpts \in CtorOptions
    /\ server = "none"
    /\ externalMspIds = <<>>
    /\ clients = <<>>
    /\ mspResponses = <<>>
    /\ waitResponsesCbs = <<>>
    /\ requesting = FALSE
    /\ promise = [c \in Calls |-> "none"]
    /\ timer = [c \in Calls |-> "none"]
    /\ sockState = [s \in Sockets |-> "new"]
    /\ written = NothingWritten
    /\ last = NoEvent
    /\ cbCalls = [c \in Calls |-> 0]
    /\ asked = FALSE
    /\ FanIdle
    /\ PassIdle
    /\ OrderIdle

\* constructor({ externalMspIds, userClient, channel, port }): the throw
\* leaves the constructor before any field is set and before
\* net.createServer and server.listen.
Construct ==
    /\ server = "none"
    /\ LET branch == CtorBranch(ctorOpts)
       IN  IF branch = "throw"
           THEN /\ server' = "threw"
                /\ UNCHANGED <<externalMspIds, clients, mspResponses, waitResponsesCbs,
                               requesting, last>>
           ELSE /\ externalMspIds' =
                       IF branch = "explicit"
                       THEN ctorOpts.externalMspIds.items
                       ELSE DerivedMspIds(ctorOpts.userClient.mspId, ctorOpts.channel.items)
                /\ clients' = <<>>
                /\ mspResponses' = <<>>
                /\ waitResponsesCbs' = <<>>
                /\ requesting' = FALSE
                /\ server' = "listening"
                /\ last' = Event("listen", 0, 0)
    /\ UNCHANGED <<promise, timer, sockState, written, cbCalls, asked, ctorOpts,
                   fanVars, passVars, orderVars>>

CtorNext == Construct

CtorSpec == CtorInit /\ [][CtorNext]_vars

\* ================================ ChannelSetupServer: two orders of arrival
\* The payloads two servers are sent, and the orders they may arrive in.
OrderMessages ==
    {Str1("A"), Str1("B"), Join3(Str1("A"), Str1("B")), Str1("Z")}

ReportLists == SeqsUpTo(OrderMessages, MaxReports)

Reorderings(msgs) ==
    {[i \in 1..Len(msgs) |-> msgs[f[i]]] : f \in Permutations(1..Len(msgs))}

\* Mutant of HandleData: the payload's identifiers replace mspResponses.
HandleDataOverwrite(expected, responses, msg) ==
    LET collected == CollectResponses(expected, Split(msg))
    IN  IF RoundComplete(collected, expected)
        THEN [mspResponses |-> <<>>, done |-> TRUE]
        ELSE [mspResponses |-> collected, done |-> FALSE]

\* The 'data' handler as a function of mspResponses and the payload: the new
\* mspResponses, and whether the callbacks were invoked.
HandleData(expected, responses, msg) ==
    LET collected == CollectResponses(expected, responses \o Split(msg))
    IN  IF RoundComplete(collected, expected)
        THEN [mspResponses |-> <<>>, done |-> TRUE]
        ELSE [mspResponses |-> collected, done |-> FALSE]

\* a server's rounds after the 'data' event of its next payload
AfterData(round, queue) ==
    LET out == HandleData(externalMspIds, round.mspResponses, queue[handled + 1])
    IN  [mspResponses |-> out.mspResponses,
         completions |-> round.completions + (IF out.done THEN 1 ELSE 0),
         early |-> round.early \/ (out.done /\ handled + 1 < Len(queue))]

\* Two servers with the same expected list, before any payload arrives.
OrderInit ==
    /\ externalMspIds \in ExpectedLists
    /\ clients = <<>>
    /\ mspResponses = <<>>
    /\ waitResponsesCbs = <<>>
    /\ requesting = FALSE
    /\ promise = [c \in Calls |-> "none"]
    /\ timer = [c \in Calls |-> "none"]
    /\ sockState = [s \in Sockets |-> "new"]
    /\ written = NothingWritten
    /\ last = NoEvent
    /\ cbCalls = [c \in Calls |-> 0]
    /\ asked = FALSE
    /\ ctorOpts = [externalMspIds |-> Defined(externalMspIds), userClient |-> NoUser,
                   channel |-> Undefined]
    /\ server = "listening"
    /\ FanIdle
    /\ PassIdle
    /\ queueA \in ReportLists
    /\ queueB \in Reorderings(queueA)
    /\ handled = 0
    /\ roundA = NewRound
    /\ roundB = NewRound

\* the next 'data' event of either server
HandleBoth ==
    /\ handled < Len(queueA)
    /\ roundA' = AfterData(roundA, queueA)
    /\ roundB' = AfterData(roundB, queueB)
    /\ handled' = handled + 1
    /\ UNCHANGED <<queueA, queueB, serverVars, fanVars, passVars, ctorVars>>

OrderNext == HandleBoth

OrderSpec == OrderInit /\ [][OrderNext]_vars

\* ===================================================== MultiUserClient claims
\* the array the call partitions: channel.getPeers() for joinChannel,
\* chaincodeInstallRequest.targets for installChaincode
PartitionedPeers == IF fanOp = "joinChannel" THEN channelPeers ELSE argTargets.items

\* C10: the target arrays of the calls issued to the UserClients are pairwise
\* disjoint, and each holds only peers of the array the call partitions.
C10_PartitionDisjoint ==
    \A i, j \in 1..Len(subCalls) :
        /\ i # j => ToSet(subCalls[i].targets) \cap ToSet(subCalls[j].targets) = {}
        /\ ToSet(subCalls[i].targets) \subseteq ToSet(PartitionedPeers)

\* Peer 3 may be administered by both organizations, and both have a client.
C10_Witness ==
    /\ fanOp \in {"joinChannel", "installChaincode"}
    /\ userClients = <<"org2", "org1">>
    /\ result = "awaiting"
    /\ Len(subCalls) = 2
    /\ subCalls[1].targets = <<3>>
    /\ subCalls[2].targets = <<1>>

\* a joinChannel or installChaincode call is under way
FanOut == fanOp \in {"joinChannel", "installChaincode"}

\* the forEach over userClients has run to its end
LoopDone == FanOut /\ result # "running"

\* some client of userClients belongs to an organization that may administer p
HasOwner(p) == \E i \in 1..Len(userClients) : Includes(PeerAdminMspIds(p), userClients[i])

\* the calls whose targets hold p
CallsWith(p) == {k \in 1..Len(subCalls) : p \in ToSet(subCalls[k].targets)}

\* C11: once the forEach is done, every peer of the partitioned array that an
\* organization of some client may administer is in the targets of exactly
\* one call, and a peer no client's organization may administer is in the
\* targets of none; such a peer makes nothing fail: the call is rejected only
\* when a UserClient's call failed.
C11_PartitionComplete ==
    /\ LoopDone =>
          \A p \in ToSet(PartitionedPeers) :
              IF HasOwner(p) THEN Cardinality(CallsWith(p)) = 1 ELSE CallsWith(p) = {}
    /\ (FanOut /\ result = "rejected") =>
          \E k \in 1..Len(subCalls) : subCalls[k].imm = "failed"

\* Peer 2 belongs to org2, which has no client: the call leaves it out and
\* returns.
C11_Witness ==
    /\ FanOut
    /\ userClients = <<"org1">>
    /\ PartitionedPeers = <<2, 1>>
    /\ result = "returned"
    /\ Len(subCalls) = 1
    /\ subCalls[1].targets = <<1>>

\* C12: a joinChannel / installChaincode call returns only when every
\* UserClient's call succeeded; once one of them has failed the call can only
\* be rejected, and it is rejected with the failure that came first, whether
\* or not the other calls have settled.  The aggregate wait() of joinChannel
\* behaves the same way towards the wait() of every call.
C12_FailFast ==
    FanOut =>
        /\ result = "returned" => \A k \in 1..Len(subCalls) : subCalls[k].imm = "ok"
        /\ (result = "awaiting" /\ \E k \in 1..Len(subCalls) : subCalls[k].imm = "failed") =>
               (ENABLED FailFast /\ ~ENABLED Return)
        /\ result = "rejected" =>
               /\ firstRejected.imm \in 1..Len(subCalls)
               /\ subCalls[firstRejected.imm].imm = "failed"
               /\ rejectedWith.imm = firstRejected.imm
               /\ waitResult = "none"
        /\ waitResult = "resolved" => \A k \in 1..Len(subCalls) : subCalls[k].wt = "ok"
        /\ (waitResult = "pending" /\ \E k \in 1..Len(subCalls) : subCalls[k].wt = "failed") =>
               (ENABLED WaitFail /\ ~ENABLED WaitReturn)
        /\ waitResult = "rejected" =>
               /\ firstRejected.wt \in 1..Len(subCalls)
               /\ subCalls[firstRejected.wt].wt = "failed"
               /\ rejectedWith.wt = firstRejected.wt

\* The second call failed while the first was still pending, and the
\* aggregate call is rejected with that failure.
C12_Witness ==
    /\ FanOut
    /\ Len(subCalls) = 2
    /\ subCalls[1].imm = "pending"
    /\ subCalls[2].imm = "failed"
    /\ result = "rejected"
    /\ rejectedWith.imm = 2

\* C13: no UserClient's wait() is invoked before the aggregate wait() of
\* joinChannel is; invoking the aggregate wait() invokes the wait() of every
\* call that was issued; and the aggregate wait() resolves only when all of
\* them have resolved.
C13_DeferredWait ==
    fanOp = "joinChannel" =>
        /\ waitResult = "none" => \A k \in 1..Len(subCalls) : subCalls[k].wt = "none"
        /\ waitResult # "none" =>
               /\ result = "returned"
               /\ \A k \in 1..Len(subCalls) : subCalls[k].wt # "none"
        /\ waitResult = "resolved" => \A k \in 1..Len(subCalls) : subCalls[k].wt = "ok"
        /\ (waitResult = "pending" /\ \E k \in 1..Len(subCalls) : subCalls[k].wt = "pending") =>
               ~ENABLED WaitReturn

\* Two calls were issued and the wait() of both has resolved.
C13_Witness ==
    /\ fanOp = "joinChannel"
    /\ Len(subCalls) = 2
    /\ subCalls[1].wt = "ok"
    /\ subCalls[2].wt = "ok"
    /\ waitResult = "resolved"

\* the client the pass-through methods are to use: the constructor's
\* mainUserClient argument, or else the first of userClients
Primary ==
    IF mainArg.present THEN mainArg
    ELSE IF userClients # <<>> THEN Client(1) ELSE NoClient

\* a pass-through call was made on a MultiUserClient that has a primary client
PassedThrough == fanOp \in PassThroughOps /\ Primary.present

\* C14 as stated: a pass-through method issues exactly one call, to the
\* primary client, of the same method with exactly the caller's arguments,
\* returns what that call returned and calls no other client.
C14_PassThroughVerbatim ==
    PassedThrough =>
        /\ delegated = <<[client |-> Primary.at, op |-> fanOp, args |-> passArgs]>>
        /\ returned = [kind |-> "value", call |-> delegated[1]]
        /\ subCalls = <<>>

\* C14, amended: a pass-through method issues exactly one call, to the
\* primary client, of the same method, returns what that call returned and
\* calls no other client; the call's arguments are the caller's, except that
\* a fourth argument the caller left undefined is passed as 60000 by
\* instantiateChaincode, upgradeChaincode and sendTransaction, and as {} by
\* sendTransactionProposal.
C14_PassThroughDefaults ==
    PassedThrough =>
        /\ Len(delegated) = 1
        /\ delegated[1].client = Primary.at
        /\ delegated[1].op = fanOp
        /\ DOMAIN delegated[1].args = DOMAIN passArgs
        /\ \A i \in DOMAIN passArgs :
               delegated[1].args[i] =
                   IF i = 4 /\ passArgs[i] = "undefined"
                      /\ fanOp \in {"instantiateChaincode", "upgradeChaincode",
                                    "sendTransaction"}
                   THEN "60000"
                   ELSE IF i = 4 /\ passArgs[i] = "undefined"
                           /\ fanOp = "sendTransactionProposal"
                   THEN "{}"
                   ELSE passArgs[i]
        /\ returned = [kind |-> "value", call |-> delegated[1]]
        /\ subCalls = <<>>

\* sendTransaction without a timeout, on a MultiUserClient whose second
\* client was named as the main one.
C14_Witness ==
    /\ fanOp = "sendTransaction"
    /\ Len(userClients) = 2
    /\ mainArg = Client(2)
    /\ passArgs = <<"arg1", "arg2", "arg3", "undefined">>
    /\ delegated = <<[client |-> 2, op |-> "sendTransaction",
                      args |-> <<"arg1", "arg2", "arg3", "60000">>]>>
    /\ returned.kind = "value"

\* ================================= ChannelSetupServer claims, the constructor
\* C15: a constructor called with no externalMspIds and without both a
\* userClient and a channel throws: no server is created or listens and no
\* field is set; a constructor called with externalMspIds listens with
\* exactly that array as its expected list, whatever userClient and channel
\* are.
C15_ConstructorOptions ==
    server # "none" =>
        /\ (~ctorOpts.externalMspIds.present
            /\ ~(ctorOpts.userClient.present /\ ctorOpts.channel.present)) =>
               /\ server = "threw"
               /\ last.op # "listen"
               /\ externalMspIds = <<>> /\ clients = <<>> /\ mspResponses = <<>>
               /\ waitResponsesCbs = <<>>
        /\ ctorOpts.externalMspIds.present =>
               /\ server = "listening"
               /\ last.op = "listen"
               /\ externalMspIds = ctorOpts.externalMspIds.items

\* A userClient alone is not enough.
C15_Witness ==
    /\ server = "threw"
    /\ ~ctorOpts.externalMspIds.present
    /\ ctorOpts.userClient = User("org1")
    /\ ~ctorOpts.channel.present
    /\ last.op = "none"

\* C16: a server constructed from a userClient and a channel expects each
\* mspId once, and expects exactly the mspIds of those peers of the channel
\* that the userClient's organization may not administer.
C16_DerivedExpected ==
    (server = "listening" /\ ~ctorOpts.externalMspIds.present) =>
        /\ NoDup(externalMspIds)
        /\ ToSet(externalMspIds) =
               {Chars(PeerMspId(p)) :
                    p \in {q \in ToSet(ctorOpts.channel.items) :
                               ctorOpts.userClient.mspId \notin ToSet(PeerAdminMspIds(q))}}

\* org1 may administer peer 3, but not peer 2.
C16_Witness ==
    /\ server = "listening"
    /\ ~ctorOpts.externalMspIds.present
    /\ ctorOpts.userClient = User("org1")
    /\ ctorOpts.channel = Defined(<<3, 2>>)
    /\ externalMspIds = <<Chars("org2")>>

\* ============================================ MultiUserClient claims, continued
\* the peers some call was issued for
AskedPeers == UNION {ToSet(subCalls[k].targets) : k \in 1..Len(subCalls)}

\* C17: when joinChannel is given joinChannelOpts.targets, the peers of the
\* calls it issues are, once the forEach is done, exactly the peers of
\* joinChannelOpts.targets that an organization of some client may
\* administer.
C17_JoinChannelTargets ==
    (fanOp = "joinChannel" /\ argTargets.present /\ LoopDone) =>
        AskedPeers = {p \in ToSet(argTargets.items) : HasOwner(p)}

\* the first mspId, in the order of p's admin mspIds, that some client has
FirstAdminMatch(p) ==
    LET admins == PeerAdminMspIds(p)
        j == CHOOSE i \in 1..Len(admins) :
                 /\ Includes(userClients, admins[i])
                 /\ \A h \in 1..(i - 1) : ~Includes(userClients, admins[h])
    IN  admins[j]

\* the first client, in the order of userClients, whose organization may
\* administer p
FirstClientMatch(p) ==
    CHOOSE i \in 1..Len(userClients) :
        /\ Includes(PeerAdminMspIds(p), userClients[i])
        /\ \A h \in 1..(i - 1) : ~Includes(PeerAdminMspIds(p), userClients[h])

\* C18 as stated: once the forEach is done, a peer that organizations of
\* several clients may administer is in the call of a client of the
\* organization that comes first among the peer's admin mspIds, whatever the
\* order of userClients.
C18_FirstAdminWins ==
    LoopDone =>
        \A p \in ToSet(PartitionedPeers) :
            HasOwner(p) =>
                \E k \in CallsWith(p) :
                    userClients[subCalls[k].client] = FirstAdminMatch(p)

\* C18, amended: once the forEach is done, a peer that organizations of
\* several clients may administer is in the call of the first client of
\* userClients whose organization may administer it, whatever the order of
\* the peer's admin mspIds.
C18_FirstClientWins ==
    LoopDone =>
        \A p \in ToSet(PartitionedPeers) :
            HasOwner(p) =>
                \E k \in CallsWith(p) : subCalls[k].client = FirstClientMatch(p)

\* Peer 3 names org2 before org1, and the client of org1 comes first.
C18_Witness ==
    /\ LoopDone
    /\ userClients = <<"org1", "org2">>
    /\ PartitionedPeers = <<3, 2>>
    /\ Len(subCalls) = 2
    /\ subCalls[1].client = 1 /\ subCalls[1].targets = <<3>>
    /\ subCalls[2].client = 2 /\ subCalls[2].targets = <<2>>

\* ================================ ChannelSetupServer claims, order of arrival
\* both servers have handled every payload
AllHandled == handled = Len(queueA)

\* C19 as stated: two servers that handle the same payloads in two orders
\* complete the same number of rounds and end with the same identifiers
\* reported.
C19_OrderIndependent ==
    AllHandled =>
        /\ roundA.completions = roundB.completions
        /\ ToSet(roundA.mspResponses) = ToSet(roundB.mspResponses)

\* C19, amended: two servers that handle the same payloads in two orders,
\* neither of them completing a round before its last payload, complete the
\* same number of rounds and end with the same identifiers reported.
C19_OrderIndependentInRound ==
    (AllHandled /\ ~roundA.early /\ ~roundB.early) =>
        /\ roundA.completions = roundB.completions
        /\ ToSet(roundA.mspResponses) = ToSet(roundB.mspResponses)

\* "A" then "B" on one server, "B" then "A" on the other: both complete their
\* round with the second payload.
C19_Witness ==
    /\ externalMspIds = <<Str1("B"), Str1("A")>>
    /\ queueA = <<Str1("A"), Str1("B")>>
    /\ queueB = <<Str1("B"), Str1("A")>>
    /\ AllHandled
    /\ roundA = [mspResponses |-> <<>>, completions |-> 1, early |-> FALSE]
    /\ roundB = roundA

\* the clients that are to get a call: those that come first, in userClients,
\* among the clients whose organization may administer some peer
OwningClients ==
    {FirstClientMatch(p) : p \in {q \in ToSet(PartitionedPeers) : HasOwner(q)}}

\* the clients a call was issued to
IssuedTo == {subCalls[k].client : k \in 1..Len(subCalls)}

\* C20: while joinChannel / installChaincode issues its calls, no call it
\* issued has settled or is awaited, and the next step of the forEach can be
\* taken whatever state the calls issued so far are in; when the method
\* awaits, the forEach has finished and every client that owns a peer has
\* been issued its call; the calls then settle in any order.
C20_IssuedBeforeAwaited ==
    FanOut =>
        /\ result = "running" =>
               /\ \A k \in 1..Len(subCalls) :
                      subCalls[k].imm = "pending" /\ subCalls[k].wt = "none"
               /\ IF nextClient <= Len(userClients)
                  THEN ENABLED ClaimOwned /\ ~ENABLED AwaitAll
                  ELSE ENABLED AwaitAll
        /\ result # "running" =>
               /\ nextClient = Len(userClients) + 1
               /\ IssuedTo = OwningClients
               /\ Len(subCalls) = Cardinality(OwningClients)

\* Both calls were issued, and the second has settled before the first.
C20_Witness ==
    /\ FanOut
    /\ result = "awaiting"
    /\ Len(subCalls) = 2
    /\ subCalls[1].imm = "pending"
    /\ subCalls[2].imm = "ok"

\* ================================== ChannelSetupServer claims, timeout and rounds
\* C21: the timer of a call leaves mspResponses, clients and requesting as
\* they are, so what was reported before it fired stays reported; and a
\* 'data' event at which every expected identifier is reported, counting what
\* was reported before, resolves every call then pending, a call made after
\* a timeout included.
C21_TimeoutRecoverable ==
    [][/\ last'.op = "timeout" =>
            /\ promise'[last'.call] = "rejected"
            /\ mspResponses' = mspResponses
            /\ clients' = clients
            /\ requesting' = requesting
       /\ (last'.op = "data" /\ IsExpectedSet
           /\ Expected \subseteq (ToSet(mspResponses) \cup ToSet(Split(last'.msg)))) =>
            \A c \in Calls : promise[c] = "pending" => promise'[c] = "resolved"
       /\ (last'.op = "data" /\ IsExpectedSet
           /\ ~(Expected \subseteq (ToSet(mspResponses) \cup ToSet(Split(last'.msg))))) =>
            /\ promise' = promise
            /\ ToSet(mspResponses) \subseteq ToSet(mspResponses')]_vars

\* "A" was reported in the round the first call timed out in; the second call
\* is resolved by "B" alone.
C21_Witness ==
    /\ externalMspIds = <<Str1("B"), Str1("A")>>
    /\ timer[1] = "fired" /\ promise[1] = "rejected"
    /\ promise[2] = "resolved"
    /\ last.op = "data" /\ last.msg = Str1("B") /\ last.pre = <<Str1("A")>> /\ last.done
    /\ cbCalls[1] = 1

\* ======================================== MultiUserClient claims, inputs and failure
\* C22: no step of a joinChannel / installChaincode call, whether it ends
\* returned or rejected, changes the channel's peer array or the caller's
\* targets; a step of the forEach takes the peers of the call it issues out
\* of the working copy and nothing else, and the call it issues carries the
\* caller's other fields as they are, with its own non-empty targets.
C22_InputsUntouched ==
    [][FanOut =>
          /\ channelPeers' = channelPeers
          /\ argTargets' = argTargets
          /\ IF Len(subCalls') > Len(subCalls)
             THEN LET issued == subCalls'[Len(subCalls')]
                  IN  /\ issued.targets # <<>>
                      /\ issued.rest = CallerRest
                      /\ peers' = SelectSeq(peers, LAMBDA p : p \notin ToSet(issued.targets))
             ELSE peers' = peers]_vars

\* The call was rejected and the working copy is used up; the caller's arrays
\* are as they were passed.
C22_Witness ==
    /\ fanOp = "joinChannel"
    /\ result = "rejected"
    /\ channelPeers = <<1, 2>>
    /\ argTargets = Defined(<<1, 2>>)
    /\ peers = <<>>
    /\ Len(subCalls) = 2
    /\ subCalls[1].rest = "genesisBlock, timeout"

\* ===================================== ChannelSetupServer claims, waiters and rounds
\* C23: a requestResponses call leaves mspResponses as it is, so what was
\* reported before the call counts for it; a 'data' event is handled in the
\* same way whether or not a call is pending: if every expected identifier is
\* then reported it empties mspResponses and resolves the pending calls, if
\* there are any, and otherwise it adds its expected identifiers and resolves
\* nothing; so after a completion without a pending call, a later call is
\* resolved only by an event at which every expected identifier has been
\* reported anew.
C23_ReportsWithoutWaiter ==
    [][/\ last'.op = "request" =>
            /\ mspResponses' = mspResponses
            /\ promise'[last'.call] = "pending"
       /\ (last'.op = "data" /\ IsExpectedSet) =>
            LET covers == Expected \subseteq (ToSet(mspResponses) \cup ToSet(Split(last'.msg)))
            IN  /\ last'.done <=> covers
                /\ covers =>
                       /\ mspResponses' = <<>>
                       /\ \A c \in Calls :
                              promise'[c] = IF promise[c] = "pending" THEN "resolved"
                                            ELSE promise[c]
                /\ ~covers =>
                       /\ promise' = promise
                       /\ ToSet(mspResponses') =
                              (ToSet(mspResponses) \cup ToSet(Split(last'.msg))) \cap Expected]_vars

\* Every expected identifier was reported before any call was made: the
\* round is over and nobody was resolved.
C23_Witness ==
    /\ externalMspIds = <<Str1("B"), Str1("A")>>
    /\ last.op = "data" /\ last.done /\ last.pre = <<Str1("A")>> /\ last.msg = Str1("B")
    /\ mspResponses = <<>>
    /\ \A c \in Calls : promise[c] = "none" /\ cbCalls[c] = 0

\* C24: with an empty expected list, a requestResponses call is pending when
\* it returns; every 'data' event, whatever its payload, completes the round
\* and resolves every call then pending; nothing but a 'data' event resolves
\* a call; and a pending call has its timer armed, which rejects it when it
\* fires, so that every call is settled in the end.
C24_EmptyExpected ==
    /\ [](externalMspIds = <<>> =>
            \A c \in Calls : promise[c] = "pending" =>
                (timer[c] = "armed" /\ ENABLED Timeout(c)))
    /\ [][externalMspIds = <<>> =>
            /\ last'.op = "request" => promise'[last'.call] = "pending"
            /\ last'.op = "data" =>
                   /\ last'.done
                   /\ \A c \in Calls : promise[c] = "pending" => promise'[c] = "resolved"
            /\ last'.op = "timeout" => promise'[last'.call] = "rejected"
            /\ \A c \in Calls :
                   (promise[c] # "resolved" /\ promise'[c] = "resolved") =>
                       (promise[c] = "pending" /\ last'.op = "data")]_vars
    /\ \A c \in Calls :
           (externalMspIds = <<>> /\ promise[c] = "pending") ~>
               (promise[c] = "rejected" \/ (promise[c] = "resolved" /\ cbCalls[c] > 0))

\* Nobody is expected, and the call was resolved by a report of "B".
C24_Witness ==
    /\ externalMspIds = <<>>
    /\ last.op = "data" /\ last.msg = Str1("B") /\ last.done
    /\ promise[1] = "resolved" /\ timer[1] = "cleared"
    /\ cbCalls[1] = 1

\* C25: when a joinChannel / installChaincode call is rejected, every client
\* that owns a peer has been issued its call; a call that is still pending
\* then can go on to succeed or to fail, and no later step withdraws a call
\* or changes the outcome of one that has settled.
C25_NoCancellation ==
    /\ []((FanOut /\ result = "rejected") =>
            /\ IssuedTo = OwningClients
            /\ \A k \in 1..Len(subCalls) :
                   subCalls[k].imm = "pending" =>
                       (ENABLED SubSettle(k, "ok") /\ ENABLED SubSettle(k, "failed")))
    /\ [][(FanOut /\ result = "rejected") =>
            /\ result' = "rejected"
            /\ Len(subCalls') = Len(subCalls)
            /\ \A k \in 1..Len(subCalls) :
                   /\ subCalls'[k].client = subCalls[k].client
                   /\ subCalls'[k].targets = subCalls[k].targets
                   /\ subCalls[k].imm # "pending" => subCalls'[k].imm = subCalls[k].imm]_vars

\* The first call failed and the aggregate call is rejected with it; the
\* second call has succeeded all the same.
C25_Witness ==
    /\ FanOut
    /\ result = "rejected"
    /\ rejectedWith.imm = 1
    /\ Len(subCalls) = 2
    /\ subCalls[1].imm = "failed"
    /\ subCalls[2].imm = "ok"
    /\ subCalls[2].targets # <<>>

====
